---- MODULE Spec2Model ----
(***************************************************************************)
(* Model of the security-and-mutation boundary of miniserve/servethis:     *)
(*   src/src/auth.rs         HTTP Basic credential parsing and matching    *)
(*   src/src/file_upload.rs  upload / mkdir handlers over the filesystem   *)
(*   src/src/errors.rs       error taxonomy                                *)
(*                                                                         *)
(* Strings are sequences of byte values (TLC cannot index a string), so    *)
(* that prefix stripping, base64 decoding and splitting are computed.      *)
(* Path strings are sequences of tokens: the separator "/" or a maximal    *)
(* run of non-separator characters (a name, "." or "..").                  *)
(***************************************************************************)
EXTENDS Integers, Sequences, FiniteSets, TLC

VARIABLES
    cfg,     \* MiniserveConfig: [path, auth, overwrite_files], fixed at startup
    fs,      \* the filesystem: canonical absolute path -> node
    req,     \* per worker: the request it is serving and the handler's position
    served,  \* what arrived so far: [requests, fields, chunks]
    clients, \* what the run's environment produces: the sets the inputs are drawn from
    pf       \* harness applying one pure function to drawn inputs

vars == <<cfg, fs, req, served, clients, pf>>

(***************************************************************************)
(* Bounds of the model                                                     *)
(***************************************************************************)
MaxRequests == 2   \* requests accepted in one run
MaxFields == 2     \* multipart fields arriving in one run
MaxChunks == 2     \* body chunks arriving in one run
MaxAccounts == 2   \* length of the account lists drawn for match_auth

(***************************************************************************)
(* Byte strings                                                            *)
(***************************************************************************)
Str_u == <<117>>            \* "u"
Str_v == <<118>>            \* "v"
Str_p == <<112>>            \* "p"
Str_q == <<113>>            \* "q"
Str_empty == <<>>           \* ""

\* auth.rs:42  the literal "Basic "
BasicPrefix == <<66, 97, 115, 105, 99, 32>>

\* auth.rs:45  the separator ':' of splitn(2, ':')
Colon == 58

\* char::REPLACEMENT_CHARACTER, what from_utf8_lossy puts for an invalid byte
ReplacementChar == 65533

\* HeaderValue::to_str (auth.rs:38): Err unless every byte is visible ASCII
IsVisibleAscii(b) == (b >= 32 /\ b < 127) \/ b = 9

to_str(h) ==
    IF \A i \in DOMAIN h : IsVisibleAscii(h[i])
    THEN [ok |-> TRUE, s |-> h]
    ELSE [ok |-> FALSE, s |-> <<>>]

IsPrefixOf(p, s) == Len(p) <= Len(s) /\ SubSeq(s, 1, Len(p)) = p

\* str::replace(pat, "") (auth.rs:42): every non-overlapping occurrence of
\* pat, scanning left to right, is removed, wherever it stands
RECURSIVE replace(_, _)
replace(s, pat) ==
    IF Len(s) < Len(pat) THEN s
    ELSE IF IsPrefixOf(pat, s)
         THEN replace(SubSeq(s, Len(pat) + 1, Len(s)), pat)
         ELSE <<s[1]>> \o replace(Tail(s), pat)

(***************************************************************************)
(* base64 (standard alphabet), as base64::decode (auth.rs:43) computes it. *)
(* Padding is accepted when canonical or absent; a character outside the   *)
(* alphabet, a dangling single character or non-zero trailing bits is an   *)
(* error.                                                                  *)
(***************************************************************************)
B64Val(c) ==
    IF c >= 65 /\ c <= 90 THEN c - 65
    ELSE IF c >= 97 /\ c <= 122 THEN c - 97 + 26
    ELSE IF c >= 48 /\ c <= 57 THEN c - 48 + 52
    ELSE IF c = 43 THEN 62
    ELSE IF c = 47 THEN 63
    ELSE -1

B64Char(v) ==
    IF v < 26 THEN v + 65
    ELSE IF v < 52 THEN v - 26 + 97
    ELSE IF v < 62 THEN v - 52 + 48
    ELSE IF v = 62 THEN 43 ELSE 47

PadCount(s) ==
    IF Len(s) >= 2 /\ s[Len(s)] = 61 /\ s[Len(s) - 1] = 61 THEN 2
    ELSE IF Len(s) >= 1 /\ s[Len(s)] = 61 THEN 1
    ELSE 0

RECURSIVE B64Quads(_)
B64Quads(b) ==
    IF Len(b) = 0 THEN <<>>
    ELSE IF Len(b) = 2
         THEN <<(B64Val(b[1]) * 4) + (B64Val(b[2]) \div 16)>>
    ELSE IF Len(b) = 3
         THEN << (B64Val(b[1]) * 4) + (B64Val(b[2]) \div 16),
                 ((B64Val(b[2]) % 16) * 16) + (B64Val(b[3]) \div 4) >>
    ELSE << (B64Val(b[1]) * 4) + (B64Val(b[2]) \div 16),
            ((B64Val(b[2]) % 16) * 16) + (B64Val(b[3]) \div 4),
            ((B64Val(b[3]) % 4) * 64) + B64Val(b[4]) >>
         \o B64Quads(SubSeq(b, 5, Len(b)))

base64_decode(s) ==
    LET k == PadCount(s)
        body == SubSeq(s, 1, Len(s) - k)
        r == Len(body) % 4
        last == IF Len(body) = 0 THEN 0 ELSE B64Val(body[Len(body)])
        good == /\ \A i \in DOMAIN body : B64Val(body[i]) >= 0
                /\ r # 1
                /\ k \in {0, (4 - r) % 4}
                /\ (r = 2 => last % 16 = 0)
                /\ (r = 3 => last % 4 = 0)
    IN  IF good THEN [ok |-> TRUE, bytes |-> B64Quads(body)]
        ELSE [ok |-> FALSE, bytes |-> <<>>]

\* The encoding a client applies to "username:password" (the inverse
\* direction; used only to build the header values clients send).
RECURSIVE base64_encode(_)
base64_encode(b) ==
    IF Len(b) = 0 THEN <<>>
    ELSE IF Len(b) = 1
         THEN <<B64Char(b[1] \div 4), B64Char((b[1] % 4) * 16), 61, 61>>
    ELSE IF Len(b) = 2
         THEN <<B64Char(b[1] \div 4),
                B64Char(((b[1] % 4) * 16) + (b[2] \div 16)),
                B64Char((b[2] % 16) * 4), 61>>
    ELSE <<B64Char(b[1] \div 4),
           B64Char(((b[1] % 4) * 16) + (b[2] \div 16)),
           B64Char(((b[2] % 16) * 4) + (b[3] \div 64)),
           B64Char(b[3] % 64)>>
         \o base64_encode(SubSeq(b, 4, Len(b)))

\* String::from_utf8_lossy (auth.rs:44): ASCII is kept, a byte that starts
\* no valid sequence becomes U+FFFD (the inputs hold no multi-byte sequence)
from_utf8_lossy(bytes) ==
    [i \in DOMAIN bytes |-> IF bytes[i] < 128 THEN bytes[i] ELSE ReplacementChar]

FirstIndex(s, c) ==
    IF \E i \in DOMAIN s : s[i] = c
    THEN CHOOSE i \in DOMAIN s : s[i] = c /\ \A j \in 1..(i - 1) : s[j] # c
    ELSE 0

\* str::splitn(2, ':') (auth.rs:45): one part when there is no ':', else
\* the text before the first ':' and all the text after it
splitn2(s) ==
    LET i == FirstIndex(s, Colon)
    IN  IF i = 0 THEN <<s>>
        ELSE <<SubSeq(s, 1, i - 1), SubSeq(s, i + 1, Len(s))>>

(***************************************************************************)
(* auth.rs:34-54 parse_basic_auth.  credentials[1] on a one-part split is  *)
(* an out-of-bounds index: the call panics.                                *)
(***************************************************************************)
parse_basic_auth(authorization_header) ==
    LET text == to_str(authorization_header)
        basic_removed == replace(text.s, BasicPrefix)
        decoded == base64_decode(basic_removed)
        credentials == splitn2(from_utf8_lossy(decoded.bytes))
    IN  IF ~text.ok THEN [tag |-> "Err", err |-> "ParseError"]
        ELSE IF ~decoded.ok THEN [tag |-> "Err", err |-> "Base64DecodeError"]
        ELSE IF Len(credentials) < 2 THEN [tag |-> "Panic"]
        ELSE [tag |-> "Ok", username |-> credentials[1], password |-> credentials[2]]

(***************************************************************************)
(* auth.rs:84-88 get_hash.  The sha2 digests are stood for by a byte fold  *)
(* that keeps what the comparison reads: a deterministic function of the   *)
(* text, different per algorithm, of the algorithm's output size.          *)
(***************************************************************************)
OutputSize(T) == IF T = "Sha256" THEN 32 ELSE 64

RECURSIVE Absorb(_, _)
Absorb(h, text) ==
    IF Len(text) = 0 THEN h
    ELSE Absorb(((h * 33) + text[1]) % 256, Tail(text))

get_hash(T, text) ==
    LET h == Absorb(OutputSize(T), text)
    IN  [i \in 1..OutputSize(T) |-> (h + (7 * i)) % 256]

\* auth.rs:79-81
compare_hash(T, password, hash) == get_hash(T, password) = hash

\* auth.rs:66-76
compare_password(basic_auth_pwd, required_auth_pwd) ==
    IF required_auth_pwd.kind = "Plain" THEN basic_auth_pwd = required_auth_pwd.v
    ELSE IF required_auth_pwd.kind = "Sha256"
         THEN compare_hash("Sha256", basic_auth_pwd, required_auth_pwd.v)
    ELSE compare_hash("Sha512", basic_auth_pwd, required_auth_pwd.v)

\* Iterator::any over the account list, left to right, stopping at a match
RECURSIVE any_account(_, _, _)
any_account(basic_auth, required_auth, i) ==
    IF i > Len(required_auth) THEN FALSE
    ELSE IF /\ basic_auth.username = required_auth[i].username
            /\ compare_password(basic_auth.password, required_auth[i].password)
         THEN TRUE
    ELSE any_account(basic_auth, required_auth, i + 1)

match_auth_first_account(basic_auth, required_auth) ==
    /\ Len(required_auth) > 0
    /\ basic_auth.username = required_auth[1].username
    /\ compare_password(basic_auth.password, required_auth[1].password)

\* auth.rs:57-63
match_auth(basic_auth, required_auth) == any_account(basic_auth, required_auth, 1)

\* tests helper create_required_auth (auth.rs:196-210)
create_required_auth(username, password, encrypt) ==
    [username |-> username,
     password |-> IF encrypt = "plain" THEN [kind |-> "Plain", v |-> password]
                  ELSE IF encrypt = "sha256"
                       THEN [kind |-> "Sha256", v |-> get_hash("Sha256", password)]
                  ELSE [kind |-> "Sha512", v |-> get_hash("Sha512", password)]]

(***************************************************************************)
(* Paths.  A path string is a sequence of tokens; std::path decomposes it  *)
(* into components: the root "/", "..", a leading "." and names.  Repeated *)
(* separators, a trailing separator and a non-leading "." vanish.          *)
(***************************************************************************)
Fail == [ok |-> FALSE, path |-> <<>>]

Front(s) == SubSeq(s, 1, Len(s) - 1)
Last(s) == s[Len(s)]

has_root(path) == Len(path) > 0 /\ path[1] = "/"

\* Path::components
components(path) ==
    LET names == SelectSeq(path, LAMBDA t : t # "/")
        lead == IF ~has_root(path) /\ Len(names) > 0 /\ names[1] = "."
                THEN <<".">> ELSE <<>>
    IN  (IF has_root(path) THEN <<"/">> ELSE <<>>)
        \o lead \o SelectSeq(names, LAMBDA t : t # ".")

\* Path::join: an absolute argument replaces the base
join(base, path) ==
    IF has_root(path) THEN path
    ELSE IF Len(base) = 0 THEN path
    ELSE IF Last(base) = "/" THEN base \o path
    ELSE base \o <<"/">> \o path

\* the path string of a canonical location (a sequence of names)
RECURSIVE display(_)
display(loc) ==
    IF Len(loc) = 0 THEN <<"/">>
    ELSE IF Len(loc) = 1 THEN <<"/", loc[1]>>
    ELSE display(Front(loc)) \o <<"/", Last(loc)>>

\* Path::strip_prefix(Component::RootDir) as used at file_upload.rs:174-177
\* and 302-305: the path without its root component, or the path unchanged
RECURSIVE strip_root(_)
strip_root(path) ==
    IF has_root(path) THEN strip_root(Tail(path)) ELSE path

\* the spelling of a name, for the string-level comparison below
Spelling(name) ==
    IF name = "srv" THEN <<"s", "r", "v">>
    ELSE IF name = "srv-evil" THEN <<"s", "r", "v", "-", "e", "v", "i", "l">>
    ELSE <<name>>

RECURSIVE Flatten(_)
Flatten(path) ==
    IF Len(path) = 0 THEN <<>>
    ELSE Spelling(path[1]) \o Flatten(Tail(path))

\* str::starts_with on the path strings: a character prefix
starts_with_str(path, base) == IsPrefixOf(Flatten(base), Flatten(path))

\* Path::starts_with (file_upload.rs:223, 372): a prefix of whole components
starts_with(path, base) == IsPrefixOf(components(base), components(path))

(***************************************************************************)
(* The filesystem: a function from canonical locations (sequences of       *)
(* names below "/") to nodes                                               *)
(*   [kind |-> "dir", ro], [kind |-> "file", data], [kind |-> "link", to]  *)
(***************************************************************************)
SymlinkFuel == 2   \* symbolic links followed in one resolution

Dir(ro) == [kind |-> "dir", ro |-> ro]
File(data) == [kind |-> "file", data |-> data]
Link(to) == [kind |-> "link", to |-> to]

\* resolve the components comps from the directory cur, following links
RECURSIVE Walk(_, _, _, _)
Walk(f, cur, comps, fuel) ==
    IF Len(comps) = 0 THEN [ok |-> TRUE, path |-> cur]
    ELSE IF f[cur].kind # "dir" THEN Fail
    ELSE IF Head(comps) = "." THEN Walk(f, cur, Tail(comps), fuel)
    ELSE IF Head(comps) = ".."
         THEN Walk(f, IF Len(cur) = 0 THEN cur ELSE Front(cur), Tail(comps), fuel)
    ELSE LET nxt == Append(cur, Head(comps))
         IN  IF nxt \notin DOMAIN f THEN Fail
             ELSE IF f[nxt].kind = "link"
                  THEN IF fuel = 0 THEN Fail
                       ELSE LET tc == components(f[nxt].to)
                            IN  IF has_root(f[nxt].to)
                                THEN Walk(f, <<>>, Tail(tc) \o Tail(comps), fuel - 1)
                                ELSE Walk(f, cur, tc \o Tail(comps), fuel - 1)
             ELSE Walk(f, nxt, Tail(comps), fuel)

\* resolution of an absolute path string to the location it names
Resolve(f, path) ==
    IF ~has_root(path) THEN Fail
    ELSE Walk(f, <<>>, Tail(components(path)), SymlinkFuel)

\* Path::canonicalize: the canonical path string, when every component exists
canonicalize(f, path) ==
    LET r == Resolve(f, path)
    IN  IF r.ok THEN [ok |-> TRUE, path |-> display(r.path)] ELSE Fail

\* Path::exists: metadata() succeeds, links followed
exists(f, path) == Resolve(f, path).ok

\* where open(O_CREAT | O_TRUNC) of the components comps from cur lands:
\* a final link is followed, a directory or a read-only parent refuses
RECURSIVE CreateLoc(_, _, _, _)
CreateLoc(f, cur, comps, fuel) ==
    IF Len(comps) = 0 THEN Fail
    ELSE LET par == Walk(f, cur, Front(comps), fuel)
             nxt == Append(par.path, Last(comps))
         IN  IF ~par.ok THEN Fail
             ELSE IF f[par.path].kind # "dir" THEN Fail
             ELSE IF Last(comps) \in {".", ".."} THEN Fail
             ELSE IF nxt \notin DOMAIN f
                  THEN IF f[par.path].ro THEN Fail ELSE [ok |-> TRUE, path |-> nxt]
             ELSE IF f[nxt].kind = "file" THEN [ok |-> TRUE, path |-> nxt]
             ELSE IF f[nxt].kind = "dir" THEN Fail
             ELSE IF fuel = 0 THEN Fail
             ELSE IF has_root(f[nxt].to)
                  THEN CreateLoc(f, <<>>, Tail(components(f[nxt].to)), fuel - 1)
                  ELSE CreateLoc(f, par.path, components(f[nxt].to), fuel - 1)

\* std::fs::File::create (file_upload.rs:42): the location of the file that
\* is created or truncated, or failure
file_create(f, path) ==
    IF ~has_root(path) THEN Fail
    ELSE CreateLoc(f, <<>>, Tail(components(path)), SymlinkFuel)

\* std::fs::create_dir (file_upload.rs:136): one level, the parent must be
\* a writable directory and the name must be free (no link is followed)
fs_create_dir(f, path) ==
    LET comps == Tail(components(path))
        par == Walk(f, <<>>, Front(comps), SymlinkFuel)
        nxt == Append(par.path, Last(comps))
    IN  IF ~has_root(path) \/ Len(comps) = 0 THEN Fail
        ELSE IF ~par.ok THEN Fail
        ELSE IF f[par.path].kind # "dir" \/ f[par.path].ro THEN Fail
        ELSE IF Last(comps) \in {".", ".."} \/ nxt \in DOMAIN f THEN Fail
        ELSE [ok |-> TRUE, path |-> nxt]

\* the filesystem with node n at location loc
Put(f, loc, n) == [p \in DOMAIN f \cup {loc} |-> IF p = loc THEN n ELSE f[p]]

\* write(2) at offset pos of an open file: the bytes land at pos
WriteAt(data, pos, bytes) ==
    [i \in 1..(IF Len(data) > pos + Len(bytes) THEN Len(data) ELSE pos + Len(bytes)) |->
        IF i > pos /\ i <= pos + Len(bytes) THEN bytes[i - pos]
        ELSE IF i <= Len(data) THEN data[i] ELSE 0]

(***************************************************************************)
(* errors.rs:13-101 ContextualError.  An error value is the sequence of    *)
(* its variants from the outermost to the innermost: the composite         *)
(* variants box another ContextualError, every other variant ends the      *)
(* chain.                                                                  *)
(***************************************************************************)
MaxNesting == 2   \* composite variants wrapped around an error

ErrorComposite == {"ArchiveCreationError", "HttpAuthenticationError"}

ErrorBase ==
    { "IoError", "MultipartError", "DuplicateFileError", "InvalidPathError",
      "InvalidAuthFormat", "InvalidHashMethod", "InvalidPasswordHash",
      "PasswordTooLongError", "InsufficientPermissionsError", "ParseError",
      "ArchiveCreationDetailError", "InvalidHttpCredentials",
      "InvalidHttpRequestError", "RouteNotFoundError",
      "NoExplicitPathAndNoTerminal", "NoSymlinksOptionWithSymlinkServePath" }

RECURSIVE Wrappings(_)
Wrappings(n) ==
    IF n = 0 THEN {<<>>}
    ELSE Wrappings(n - 1) \cup
         { <<c>> \o w : c \in ErrorComposite, w \in Wrappings(n - 1) }

ErrorValues == { w \o <<b>> : w \in Wrappings(MaxNesting), b \in ErrorBase }

\* errors.rs:89-101 ContextualError::status_code
RECURSIVE status_code(_)
status_code(e) ==
    IF e[1] \in ErrorComposite THEN status_code(Tail(e))
    ELSE IF e[1] = "RouteNotFoundError" THEN 404
    ELSE IF e[1] = "InsufficientPermissionsError" THEN 403
    ELSE IF e[1] = "InvalidHttpCredentials" THEN 401
    ELSE IF e[1] = "InvalidHttpRequestError" THEN 400
    ELSE 500

(***************************************************************************)
(* Error texts and the log.  A text is a sequence of tokens: LF is the     *)
(* line feed, every other token stands for text without a line feed.       *)
(***************************************************************************)
LF == "\n"

\* errors.rs:13-87: the Display text of an error value; detail is the text
\* the variant carries.  A composite variant prints its cause after
\* "caused by: ".  Variants that the handlers use and errors.rs does not
\* declare print as one token.
RECURSIVE to_string(_, _)
to_string(e, detail) ==
    LET kind == e[1]
    IN  CASE kind = "HttpAuthenticationError" ->
               <<"An error occured during HTTP authentication", LF, "caused by: ">>
                   \o to_string(Tail(e), detail)
          [] kind = "ArchiveCreationError" ->
               <<"An error occured while creating the ", "{0}", LF, "caused by: ">>
                   \o to_string(Tail(e), detail)
          [] kind = "IoError" -> <<detail, LF, "caused by: ", "{1}">>
          [] kind = "MultipartError" ->
               <<"Failed to process multipart request", LF, "caused by: ", "{0}">>
          [] kind = "DuplicateFileError" ->
               <<"File already exists, and the overwrite_files option has not been set">>
          [] kind = "InvalidPathError" -> <<"Invalid path", LF, "caused by: ", detail>>
          [] kind = "InvalidAuthFormat" ->
               <<"Invalid format for credentials string. Expected username:password, username:sha256:hash or username:sha512:hash">>
          [] kind = "InvalidHashMethod" ->
               <<detail, " is not a valid hashing method. Expected sha256 or sha512">>
          [] kind = "InvalidPasswordHash" ->
               <<"Invalid format for password hash. Expected hex code">>
          [] kind = "PasswordTooLongError" ->
               <<"HTTP password length exceeds 255 characters">>
          [] kind = "InsufficientPermissionsError" ->
               <<"Insufficient permissions to create file in ", detail>>
          [] kind = "ParseError" ->
               <<"Failed to parse ", detail, LF, "caused by: ", "{1}">>
          [] kind = "ArchiveCreationDetailError" -> <<detail>>
          [] kind = "InvalidHttpCredentials" ->
               <<"Invalid credentials for HTTP authentication">>
          [] kind = "InvalidHttpRequestError" ->
               <<"Invalid HTTP request", LF, "caused by: ", detail>>
          [] kind = "RouteNotFoundError" -> <<"Route ", detail, " could not be found">>
          [] kind = "NoExplicitPathAndNoTerminal" ->
               <<"Refusing to start as no explicit serve path was set and no interactive terminal was attached",
                 LF, "Please set an explicit serve path like: `miniserve /my/path`">>
          [] kind = "NoSymlinksOptionWithSymlinkServePath" ->
               <<"The -P|--no-symlinks option was provided but the serve path '",
                 detail, "' is a symlink">>
          [] OTHER -> <<kind>>

\* str::lines as errors.rs:163 uses it: the text is cut at every line feed,
\* and a line feed that ends the text starts no further line
RECURSIVE lines(_)
lines(description) ==
    IF description = <<>> THEN <<>>
    ELSE LET feeds == {i \in DOMAIN description : description[i] = LF}
         IN  IF feeds = {} THEN <<description>>
             ELSE LET i == CHOOSE j \in feeds : \A k \in feeds : j <= k
                  IN  <<SubSeq(description, 1, i - 1)>>
                          \o lines(SubSeq(description, i + 1, Len(description)))

\* what a request puts out: a line of the error log, or its response
LogLine(line) == [ev |-> "log", line |-> line]
Responded == [ev |-> "response", line |-> <<>>]

log_error_chain_unsplit(description) == <<LogLine(description)>>

\* errors.rs:162-166 log_error_chain: log::error! once for every line
log_error_chain(description) ==
    LET causes == lines(description)
    IN  [i \in DOMAIN causes |-> LogLine(causes[i])]

\* errors.rs:103-108 ContextualError::error_response: the text is logged,
\* then the response is built with the status of the error
error_response(e, detail) ==
    [events |-> log_error_chain(to_string(e, detail)) \o <<Responded>>,
     status |-> status_code(e)]

(***************************************************************************)
(* Responses                                                               *)
(***************************************************************************)
None == "none"

\* Option<T>: the empty tuple, or the tuple of the value
Absent == <<>>
Some(x) == <<x>>
Get(o) == o[1]

\* file_upload.rs:254-258, 396-400: HttpResponse::SeeOther with Location
SeeOther(return_path) ==
    [status |-> 303, err |-> None, msg |-> None, code |-> 303, www |-> None,
     location |-> Some(return_path)]

\* file_upload.rs:420-455 create_error_response: the response is built with
\* HttpResponse::BadRequest() whatever error_code is; error_code only goes
\* into the rendered page
create_error_response_internal(err, msg, error_code) ==
    [status |-> 500, err |-> err, msg |-> msg, code |-> error_code, www |-> None,
     location |-> Absent]

create_error_response(err, msg, error_code) ==
    [status |-> 400, err |-> err, msg |-> msg, code |-> error_code, www |-> None,
     location |-> Absent]

\* the text "/" of a header value
Str_slash == <<47>>

return_path_of_raw(referer) ==
    IF referer = Absent THEN Str_slash ELSE Get(referer)

\* file_upload.rs:166-170, 294-298: the Referer header as text, else "/"
return_path_of(referer) ==
    IF referer = Absent THEN Str_slash
    ELSE IF to_str(Get(referer)).ok THEN Get(referer) ELSE Str_slash

(***************************************************************************)
(* file_upload.rs:17-30 check_dir_name                                     *)
(***************************************************************************)
check_dir_name(dir_name) ==
    IF \A i \in DOMAIN components(dir_name) :
           components(dir_name)[i] \notin {"/", ".."}
    THEN None ELSE "InvalidPathError"

check_target_dir_ignores_readonly(f, target_dir) ==
    LET r == Resolve(f, target_dir)
    IN  IF ~r.ok THEN "InsufficientPermissionsError"
        ELSE IF f[r.path].kind # "dir" THEN "InvalidPathError"
        ELSE None

(***************************************************************************)
(* file_upload.rs:67-89 check_target_dir                                   *)
(***************************************************************************)
check_target_dir(f, target_dir) ==
    LET r == Resolve(f, target_dir)
    IN  IF ~r.ok THEN "InsufficientPermissionsError"
        ELSE IF f[r.path].kind # "dir" THEN "InvalidPathError"
        ELSE IF f[r.path].ro THEN "InsufficientPermissionsError"
        ELSE None

(***************************************************************************)
(* file_upload.rs:172-242 and 300-391: from the 'path' query parameter to  *)
(* the target directory, or the error response                             *)
(***************************************************************************)
resolve_target(f, conf, query_path) ==
    LET upload_path == strip_root(Get(query_path))
        app_root_dir == canonicalize(f, conf.path)
        target == canonicalize(f, join(app_root_dir.path, upload_path))
    IN  IF query_path = Absent
        THEN [ok |-> FALSE, target_dir |-> <<>>, err |-> "InvalidHttpRequestError",
              msg |-> "Missing query parameter 'path'", code |-> 400]
        ELSE IF ~app_root_dir.ok
        THEN [ok |-> FALSE, target_dir |-> <<>>, err |-> "IoError",
              msg |-> "Failed to resolve path served by miniserve", code |-> 500]
        ELSE IF target.ok /\ starts_with(target.path, app_root_dir.path)
        THEN [ok |-> TRUE, target_dir |-> target.path, err |-> None, msg |-> None,
              code |-> 0]
        ELSE [ok |-> FALSE, target_dir |-> <<>>, err |-> "InvalidHttpRequestError",
              msg |-> "Invalid value for 'path' parameter", code |-> 400]

save_file_never_refuses(f, file_path, overwrite_files) == FALSE

save_file_refuses_with_lock(f, file_path, overwrite_files) ==
    /\ ~overwrite_files
    /\ \/ exists(f, file_path)
       \/ \E w \in DOMAIN req :
             req[w].pc \in {"create", "write"} /\ req[w].file_path = Some(file_path)

\* file_upload.rs:38-40: save_file refuses an existing destination
save_file_refuses(f, file_path, overwrite_files) ==
    ~overwrite_files /\ exists(f, file_path)

created_without_truncate(f, loc) ==
    IF loc \in DOMAIN f THEN f[loc] ELSE File(<<>>)

\* file_upload.rs:42: File::create leaves an empty file at the location
created(f, loc) == File(<<>>)

(***************************************************************************)
(* file_upload.rs:92-124 handle_multipart with the synchronous head of     *)
(* save_file (33-40): what the arrival of a field decides                  *)
(***************************************************************************)
handle_multipart(f, filename, target_dir, overwrite_files) ==
    IF filename = Absent
    THEN [ok |-> FALSE, err |-> "ParseError", file_path |-> Absent]
    ELSE IF check_target_dir(f, target_dir) # None
         THEN [ok |-> FALSE, err |-> check_target_dir(f, target_dir), file_path |-> Absent]
    ELSE IF save_file_refuses(f, join(target_dir, Get(filename)), overwrite_files)
         THEN [ok |-> FALSE, err |-> "DuplicateFileError",
               file_path |-> Some(join(target_dir, Get(filename)))]
    ELSE [ok |-> TRUE, err |-> None, file_path |-> Some(join(target_dir, Get(filename)))]

handle_create_dir_without_exists_check(f, target_dir, dir_name) ==
    LET joined == join(target_dir, dir_name)
        made == fs_create_dir(f, joined)
    IN  IF check_target_dir(f, target_dir) # None
        THEN [err |-> check_target_dir(f, target_dir), fs |-> f, made |-> {}]
        ELSE IF check_dir_name(dir_name) # None
        THEN [err |-> "InvalidPathError", fs |-> f, made |-> {}]
        ELSE IF ~made.ok
        THEN [err |-> "IoError", fs |-> f, made |-> {}]
        ELSE [err |-> None, fs |-> Put(f, made.path, Dir(FALSE)), made |-> {made.path}]

(***************************************************************************)
(* file_upload.rs:127-147 handle_create_dir                                *)
(***************************************************************************)
handle_create_dir(f, target_dir, dir_name) ==
    LET joined == join(target_dir, dir_name)
        made == fs_create_dir(f, joined)
    IN  IF check_target_dir(f, target_dir) # None
        THEN [err |-> check_target_dir(f, target_dir), fs |-> f, made |-> {}]
        ELSE IF check_dir_name(dir_name) # None
        THEN [err |-> "InvalidPathError", fs |-> f, made |-> {}]
        ELSE IF exists(f, joined)
        THEN [err |-> "ConflictMkdirError", fs |-> f, made |-> {}]
        ELSE IF ~made.ok
        THEN [err |-> "IoError", fs |-> f, made |-> {}]
        ELSE [err |-> None, fs |-> Put(f, made.path, Dir(FALSE)), made |-> {made.path}]

(***************************************************************************)
(* What clients send: the Authorization header                             *)
(***************************************************************************)
Credentials(username, password) == username \o <<Colon>> \o password

\* Authorization: Basic base64(username:password)
BasicHeader(username, password) ==
    BasicPrefix \o base64_encode(Credentials(username, password))

H_u_p == BasicHeader(Str_u, Str_p)
H_u_q == BasicHeader(Str_u, Str_q)
H_u_empty == BasicHeader(Str_u, Str_empty)
\* the credentials u:p encoded, without the "Basic " prefix
H_bare == base64_encode(Credentials(Str_u, Str_p))
\* "Basic " in the middle of the encoded credentials u:p
H_middle == SubSeq(H_bare, 1, 2) \o BasicPrefix \o SubSeq(H_bare, 3, 4)
\* "Basic " and the encoding of "up": no ':' in the decoded text
H_no_colon == BasicPrefix \o base64_encode(Str_u \o Str_p)
\* "Basic !!!!": not base64
H_not_base64 == BasicPrefix \o <<33, 33, 33, 33>>
\* a header value with a byte outside visible ASCII
H_not_text == BasicPrefix \o <<255>>

WellFormedHeaders == {H_u_p, H_u_q, H_u_empty}
UndecodableHeaders == {H_no_colon, H_not_base64, H_not_text}
HeaderValues == WellFormedHeaders \cup UndecodableHeaders \cup {H_bare, H_middle}
HeaderInputs == {Some(h) : h \in HeaderValues} \cup {Absent}

\* parse_basic_auth of the header values above, computed once
ParsedHeaders == [h \in HeaderValues |-> parse_basic_auth(h)]

\* auth.rs:102: the call parse_basic_auth(auth_headers)
parse_header(h) == IF h \in HeaderValues THEN ParsedHeaders[h] ELSE parse_basic_auth(h)

(***************************************************************************)
(* auth.rs:90-132 Auth::response: the middleware's response hook.  It is   *)
(* given the response the handler has already produced.                    *)
(***************************************************************************)
\* auth.rs:134-166 build_unauthorized_response: the error is wrapped in
\* HTTPAuthenticationError and, when the flag is set, logged before the
\* body of the response is rendered
build_unauthorized_response(error, detail, log_chain) ==
    IF log_chain
    THEN log_error_chain(to_string(<<"HttpAuthenticationError">> \o error, detail))
    ELSE <<>>

Unauthorized ==
    [status |-> 401, err |-> "InvalidHTTPCredentials", msg |-> None, code |-> 401,
     www |-> "Basic realm=\"miniserve\"", location |-> Absent]

BadRequest(err) ==
    [status |-> 400, err |-> err, msg |-> None, code |-> 400, www |-> None,
     location |-> Absent]

Auth_response_always_checks(required_auth, header, resp) ==
    LET parsed == IF header = Absent THEN [tag |-> "Absent"]
                  ELSE parse_basic_auth(Get(header))
    IN  IF header = Absent
        THEN [tag |-> "Done", decision |-> "Rejected", resp |-> Unauthorized]
        ELSE IF parsed.tag = "Panic" THEN [tag |-> "Panic"]
        ELSE IF parsed.tag = "Err"
        THEN [tag |-> "Done", decision |-> "Rejected", resp |-> BadRequest(parsed.err)]
        ELSE IF match_auth([username |-> parsed.username, password |-> parsed.password],
                           required_auth)
        THEN [tag |-> "Done", decision |-> "Authorized", resp |-> resp]
        ELSE [tag |-> "Done", decision |-> "Rejected", resp |-> Unauthorized]

Auth_response_mismatch_passes(required_auth, header, resp) ==
    LET parsed == IF header = Absent THEN [tag |-> "Absent"]
                  ELSE parse_basic_auth(Get(header))
    IN  IF Len(required_auth) = 0
        THEN [tag |-> "Done", decision |-> "NoAuthRequired", resp |-> resp]
        ELSE IF header = Absent
        THEN [tag |-> "Done", decision |-> "Rejected", resp |-> Unauthorized]
        ELSE IF parsed.tag = "Panic" THEN [tag |-> "Panic"]
        ELSE IF parsed.tag = "Err"
        THEN [tag |-> "Done", decision |-> "Rejected", resp |-> BadRequest(parsed.err)]
        ELSE [tag |-> "Done", decision |-> "Authorized", resp |-> resp]

Auth_response(required_auth, header, resp) ==
    LET parsed == IF header = Absent THEN [tag |-> "Absent"]
                  ELSE parse_header(Get(header))
    IN  IF Len(required_auth) = 0
        THEN [tag |-> "Done", decision |-> "NoAuthRequired", resp |-> resp]
        ELSE IF header = Absent
        THEN [tag |-> "Done", decision |-> "Rejected", resp |-> Unauthorized]
        ELSE IF parsed.tag = "Panic" THEN [tag |-> "Panic"]
        ELSE IF parsed.tag = "Err"
        THEN [tag |-> "Done", decision |-> "Rejected", resp |-> BadRequest(parsed.err)]
        ELSE IF match_auth([username |-> parsed.username, password |-> parsed.password],
                           required_auth)
        THEN [tag |-> "Done", decision |-> "Authorized", resp |-> resp]
        ELSE [tag |-> "Done", decision |-> "Rejected", resp |-> Unauthorized]

(***************************************************************************)
(* What clients send, continued                                            *)
(***************************************************************************)
\* Referer: absent, "/d/", or a value that is not text

RefererInputs == {Absent, Some(<<47, 100, 47>>), Some(<<255>>)}

\* values of the 'path' query parameter
PathInputs ==
    { Some(<<"/">>),
      Some(<<"/", "d">>),
      Some(<<"/", "lnk", "/", "..", "/", "srv">>),
      Some(<<"/", "..", "/", "srv-evil">>),
      Some(<<"/", "lnk">>),
      Some(<<"/", "a">>),
      Absent }

\* filenames of the Content-Disposition of a field
FilenameInputs ==
    { Some(<<"b">>),
      Some(<<"a">>),
      Some(<<"..", "/", "e">>),
      Some(<<"/", "out", "/", "x">>),
      Some(<<"lnk", "/", "x">>),
      Absent }

\* values of the mkdir_name form field
MkdirNameInputs ==
    { Some(<<"d">>),
      Some(<<"a">>),
      Some(<<"..", "/", "e">>),
      Some(<<"/", "out">>),
      Some(<<"d", "/", "d">>),
      Some(<<"lnk", "/", "d">>),
      Absent }

\* the k-th body chunk of a run: k bytes of value k.  The handlers never
\* read the bytes of a chunk, so distinct labels stand for any contents.
Chunk(k) == [i \in 1..k |-> k]

\* clients exercising the upload and mkdir handlers
UploadClients ==
    [headers |-> {Absent, Some(H_u_p), Some(H_no_colon)},
     referers |-> {Absent},
     paths |-> PathInputs,
     filenames |-> FilenameInputs,
     mkdir_names |-> MkdirNameInputs,
     short_writes |-> {0}]

\* clients exercising the Authorization and Referer headers
HeaderClients ==
    [headers |-> HeaderInputs,
     referers |-> RefererInputs,
     paths |-> {Some(<<"/">>), Absent},
     filenames |-> {Some(<<"b">>)},
     mkdir_names |-> {Some(<<"d">>)},
     short_writes |-> {0}]

Accounts_none == <<>>
Accounts_one == <<create_required_auth(Str_u, Str_p, "plain")>>
Accounts_shared ==
    << create_required_auth(Str_u, Str_q, "sha256"),
       create_required_auth(Str_u, Str_empty, "sha512"),
       create_required_auth(Str_v, Str_p, "plain") >>

AccountConfigs == {Accounts_none, Accounts_one, Accounts_shared}

(***************************************************************************)
(* Initial state                                                           *)
(***************************************************************************)
\* the worker threads of the server; each serves one request at a time
OneWorker == {"w1"}
Workers == DOMAIN req

RootPath == <<"/", "srv">>
RootLoc == <<"srv">>

InitFs ==
    LET nodes ==
          { <<<<>>, Dir(FALSE)>>,
            <<<<"srv">>, Dir(FALSE)>>,
            <<<<"srv", "a">>, File(<<9>>)>>,
            <<<<"srv", "lnk">>, Link(<<"/", "out">>)>>,
            <<<<"srv-evil">>, Dir(FALSE)>>,
            <<<<"out">>, Dir(FALSE)>>,
            <<<<"out", "s">>, File(<<8>>)>> }
    IN  [loc \in {n[1] : n \in nodes} |-> (CHOOSE n \in nodes : n[1] = loc)[2]]

NoResponse ==
    [status |-> 0, err |-> None, msg |-> None, code |-> 0, www |-> None,
     location |-> Absent]

\* a worker's request: pc is the position of its handling; query_path
\* (until the handler has moved it into target_dir), dir_name and referer
\* are what the client sent; arrived and ingested count the fields of the
\* body that arrived and that were written to their end; events are the log
\* lines and responses the request has put out, in order
IdleReq ==
    [pc |-> "idle", kind |-> None, query_path |-> Absent, dir_name |-> Absent,
     referer |-> Absent, target_dir |-> Absent, file_path |-> Absent,
     file |-> Absent, pos |-> 0, acc |-> 0, recv |-> <<>>, field_done |-> FALSE,
     arrived |-> 0, ingested |-> 0, handler_resp |-> NoResponse,
     header |-> Absent, decision |-> None, resp |-> NoResponse, wrote |-> {},
     events |-> <<>>]

NoCall == [op |-> None]

NoneServed == [requests |-> 0, fields |-> 0, chunks |-> 0]

Init ==
    /\ cfg \in [path : {RootPath}, auth : {Accounts_one}, overwrite_files : BOOLEAN]
    /\ fs = InitFs
    /\ req = [w \in OneWorker |-> IdleReq]
    /\ served = NoneServed
    /\ clients = UploadClients
    /\ pf = NoCall

InitHeaders ==
    /\ cfg \in [path : {RootPath}, auth : AccountConfigs, overwrite_files : {FALSE}]
    /\ fs = InitFs
    /\ req = [w \in OneWorker |-> IdleReq]
    /\ served = NoneServed
    /\ clients = HeaderClients
    /\ pf = NoCall

(***************************************************************************)
(* Actions.  A worker serves one request at a time: the handler runs, and  *)
(* the response it produced is handed to Auth::response.                   *)
(***************************************************************************)
Accepting(w) == req[w].pc = "idle" /\ served.requests < MaxRequests

\* the handler returns resp: its locals are dropped, save the paths it resolved
Returned(r, resp) ==
    [IdleReq EXCEPT !.pc = "auth", !.kind = r.kind, !.query_path = r.query_path,
                    !.dir_name = r.dir_name, !.referer = r.referer,
                    !.target_dir = r.target_dir,
                    !.file_path = r.file_path, !.wrote = r.wrote,
                    !.arrived = r.arrived, !.ingested = r.ingested,
                    !.handler_resp = resp, !.events = r.events \o <<Responded>>]

Failed_skips_field(r, err, msg, code) ==
    IF r.kind = "upload" /\ r.pc \in {"fields", "create", "write"}
    THEN [r EXCEPT !.pc = "fields"]
    ELSE Returned([r EXCEPT !.events = @ \o log_error_chain(to_string(<<err>>, msg))],
                  create_error_response(err, msg, code))

\* file_upload.rs:252-272, 420-455: the handler fails with err: try_collect
\* ends at the first error, and create_error_response logs the error's text
\* before it builds the response
Failed(r, err, msg, code) ==
    Returned([r EXCEPT !.events = @ \o log_error_chain(to_string(<<err>>, msg))],
             create_error_response(err, msg, code))

\* file_upload.rs:155-246: upload_file up to the start of the multipart stream
UploadStart(w) ==
    /\ Accepting(w)
    /\ \E query_path \in clients.paths :
         LET r == resolve_target(fs, cfg, query_path)
             fresh == [IdleReq EXCEPT !.kind = "upload", !.query_path = query_path]
         IN  req' = [req EXCEPT ![w] =
                        IF r.ok
                        THEN [fresh EXCEPT !.pc = "fields", !.query_path = Absent,
                                           !.target_dir = Some(r.target_dir)]
                        ELSE Failed(fresh, r.err, r.msg, r.code)]
    /\ served' = [served EXCEPT !.requests = @ + 1]
    /\ UNCHANGED <<cfg, fs, clients, pf>>

awaits_next_field_while_writing(r) == r.pc \in {"fields", "write"}

\* file_upload.rs:248-251: try_flatten polls the multipart stream for the
\* next field only when the stream of the field before it is exhausted
awaits_next_field(r) == r.pc = "fields"

\* file_upload.rs:250, 92-124, 33-40: the next field of the body arrives
FieldArrives(w) ==
    /\ awaits_next_field(req[w])
    /\ served.fields < MaxFields
    /\ \E filename \in clients.filenames :
         LET h == handle_multipart(fs, filename, Get(req[w].target_dir),
                                   cfg.overwrite_files)
             r == [req[w] EXCEPT !.file_path = h.file_path, !.file = Absent,
                                 !.pos = 0, !.acc = 0, !.recv = <<>>,
                                 !.field_done = FALSE, !.arrived = @ + 1]
         IN  req' = [req EXCEPT ![w] =
                        IF h.ok THEN [r EXCEPT !.pc = "create"]
                        ELSE Failed(r, h.err, None, 500)]
    /\ served' = [served EXCEPT !.fields = @ + 1]
    /\ UNCHANGED <<cfg, fs, clients, pf>>

\* file_upload.rs:42-50: save_file opens the destination
FileCreate(w) ==
    /\ req[w].pc = "create"
    /\ LET c == file_create(fs, Get(req[w].file_path))
       IN  IF c.ok
           THEN /\ fs' = Put(fs, c.path, created(fs, c.path))
                /\ req' = [req EXCEPT ![w] =
                              [@ EXCEPT !.pc = "write", !.file = Some(c.path),
                                        !.wrote = @ \cup {c.path}]]
           ELSE /\ fs' = fs
                /\ req' = [req EXCEPT ![w] = Failed(@, "IoError", None, 500)]
    /\ UNCHANGED <<cfg, served, clients, pf>>

\* file_upload.rs:54-61: one chunk of the field is written and counted
ChunkArrives(w) ==
    /\ req[w].pc = "write"
    /\ served.chunks < MaxChunks
    /\ LET bytes == Chunk(served.chunks + 1)
       IN  /\ fs' = Put(fs, Get(req[w].file),
                        File(WriteAt(fs[Get(req[w].file)].data, req[w].pos, bytes)))
           /\ req' = [req EXCEPT ![w] =
                         [@ EXCEPT !.pos = @ + Len(bytes), !.acc = @ + Len(bytes),
                                   !.recv = @ \o bytes]]
    /\ served' = [served EXCEPT !.chunks = @ + 1]
    /\ UNCHANGED <<cfg, clients, pf>>

WriteFails_removes_file(w) ==
    /\ req[w].pc = "write"
    /\ served.chunks < MaxChunks
    /\ fs' = [p \in DOMAIN fs \ {Get(req[w].file)} |-> fs[p]]
    /\ req' = [req EXCEPT ![w] = Failed(@, "IoError", None, 500)]
    /\ served' = [served EXCEPT !.chunks = @ + 1]
    /\ UNCHANGED <<cfg, clients, pf>>

\* file_upload.rs:57-60: write_all of an arrived chunk fails.  write_all
\* writes until the chunk is out or a write fails, so a number of the
\* chunk's first bytes, short of all, is in the file when it returns the
\* error; short_writes are the numbers the disk of the run produces
WriteFails(w) ==
    /\ req[w].pc = "write"
    /\ served.chunks < MaxChunks
    /\ LET bytes == Chunk(served.chunks + 1)
       IN  \E n \in {k \in clients.short_writes : k < Len(bytes)} :
             fs' = Put(fs, Get(req[w].file),
                       File(WriteAt(fs[Get(req[w].file)].data, req[w].pos,
                                    SubSeq(bytes, 1, n))))
    /\ req' = [req EXCEPT ![w] = Failed(@, "IoError", None, 500)]
    /\ served' = [served EXCEPT !.chunks = @ + 1]
    /\ UNCHANGED <<cfg, clients, pf>>

\* file_upload.rs:51-63: the field's stream ends, the fold yields the count
FieldEnds(w) ==
    /\ req[w].pc = "write"
    /\ req' = [req EXCEPT ![w] = [@ EXCEPT !.pc = "fields", !.field_done = TRUE,
                                           !.ingested = @ + 1]]
    /\ UNCHANGED <<cfg, fs, served, clients, pf>>

\* file_upload.rs:53, 249: the multipart stream yields an error
StreamFails(w) ==
    /\ req[w].pc \in {"fields", "write"}
    /\ req' = [req EXCEPT ![w] = Failed(@, "MultipartError", None, 500)]
    /\ UNCHANGED <<cfg, fs, served, clients, pf>>

\* file_upload.rs:252-258: the body ends, every field was ingested
StreamEnds(w) ==
    /\ req[w].pc = "fields"
    /\ \E referer \in clients.referers :
         req' = [req EXCEPT ![w] = Returned([@ EXCEPT !.referer = referer],
                                            SeeOther(return_path_of(referer)))]
    /\ UNCHANGED <<cfg, fs, served, clients, pf>>

\* file_upload.rs:283-416: create_dir, a synchronous handler
CreateDir(w) ==
    /\ Accepting(w)
    /\ \E query_path \in clients.paths, mkdir_name \in clients.mkdir_names :
         LET r == resolve_target(fs, cfg, query_path)
             fresh == [IdleReq EXCEPT !.kind = "mkdir", !.query_path = query_path,
                                      !.dir_name = mkdir_name]
             h == handle_create_dir(fs, r.target_dir, Get(mkdir_name))
         IN  IF query_path # Absent /\ mkdir_name = Absent
             THEN /\ fs' = fs
                  /\ req' = [req EXCEPT ![w] =
                                Failed(fresh, "InvalidHttpRequestError",
                                       "Missing query parameter 'mkdir_name'", 400)]
             ELSE IF ~r.ok
             THEN /\ fs' = fs
                  /\ req' = [req EXCEPT ![w] = Failed(fresh, r.err, r.msg, r.code)]
             ELSE IF h.err # None
             THEN /\ fs' = fs
                  /\ req' = [req EXCEPT ![w] =
                                Failed([fresh EXCEPT !.query_path = Absent,
                                                       !.target_dir = Some(r.target_dir)],
                                       h.err, None, 500)]
             ELSE /\ fs' = h.fs
                  /\ \E referer \in clients.referers :
                       req' = [req EXCEPT ![w] =
                                  Returned([fresh EXCEPT !.query_path = Absent,
                                                         !.target_dir = Some(r.target_dir),
                                                         !.wrote = h.made,
                                                         !.referer = referer],
                                           SeeOther(return_path_of(referer)))]
    /\ served' = [served EXCEPT !.requests = @ + 1]
    /\ UNCHANGED <<cfg, clients, pf>>

\* auth.rs:105-110, 118-130: the error a rejection hands to
\* build_unauthorized_response; a parse error is already wrapped once
rejection_error(resp) ==
    IF resp.status = 401 THEN <<"InvalidHttpCredentials">>
    ELSE <<"HttpAuthenticationError", resp.err>>

\* auth.rs:90-132: the middleware's response hook; a panic unwinds the call
AuthResponse(w) ==
    /\ req[w].pc = "auth"
    /\ \E header \in clients.headers :
         LET a == Auth_response(cfg.auth, header, req[w].handler_resp)
         IN  req' = [req EXCEPT ![w] =
                        IF a.tag = "Panic"
                        THEN [@ EXCEPT !.pc = "aborted", !.header = header,
                                       !.decision = None, !.resp = NoResponse]
                        ELSE IF a.decision = "Rejected"
                        THEN [@ EXCEPT !.pc = "done", !.header = header,
                                       !.decision = a.decision, !.resp = a.resp,
                                       !.events = @
                                           \o build_unauthorized_response(
                                                  rejection_error(a.resp),
                                                  "HTTP authentication header", TRUE)
                                           \o <<Responded>>]
                        ELSE [@ EXCEPT !.pc = "done", !.header = header,
                                       !.decision = a.decision, !.resp = a.resp]]
    /\ UNCHANGED <<cfg, fs, served, clients, pf>>

\* the response is sent and the worker takes the next request
Finish(w) ==
    /\ req[w].pc = "done"
    /\ req' = [req EXCEPT ![w] = IdleReq]
    /\ UNCHANGED <<cfg, fs, served, clients, pf>>

Next ==
    \E w \in Workers :
        \/ UploadStart(w)
        \/ FieldArrives(w)
        \/ FileCreate(w)
        \/ ChunkArrives(w)
        \/ WriteFails(w)
        \/ FieldEnds(w)
        \/ StreamFails(w)
        \/ StreamEnds(w)
        \/ CreateDir(w)
        \/ AuthResponse(w)
        \/ Finish(w)

Spec == Init /\ [][Next]_vars

\* the same server, its clients varying the headers
SpecHeaders == InitHeaders /\ [][Next]_vars

\* the served tree with a read-only directory in it
DirsFs == Put(InitFs, <<"srv", "ro">>, Dir(TRUE))

\* clients exercising the mkdir handler: the target is the root, a
\* read-only directory, a file, or not given
DirClients ==
    [headers |-> {Absent, Some(H_u_p)},
     referers |-> {Absent},
     paths |-> {Some(<<"/">>), Some(<<"/", "ro">>), Some(<<"/", "a">>), Absent},
     filenames |-> {Some(<<"b">>)},
     mkdir_names |-> MkdirNameInputs,
     short_writes |-> {0}]

InitDirs ==
    /\ cfg \in [path : {RootPath}, auth : {Accounts_none, Accounts_one},
                overwrite_files : {FALSE}]
    /\ fs = DirsFs
    /\ req = [w \in OneWorker |-> IdleReq]
    /\ served = NoneServed
    /\ clients = DirClients
    /\ pf = NoCall

SpecDirs == InitDirs /\ [][Next]_vars

\* two worker threads, their clients uploading to the same destination
TwoWorkers == {"w1", "w2"}

RaceClients ==
    [headers |-> {Absent},
     referers |-> {Absent},
     paths |-> {Some(<<"/">>)},
     filenames |-> {Some(<<"b">>)},
     mkdir_names |-> {Some(<<"d">>)},
     short_writes |-> {0}]

InitRace ==
    /\ cfg = [path |-> RootPath, auth |-> Accounts_none, overwrite_files |-> FALSE]
    /\ fs = InitFs
    /\ req = [w \in TwoWorkers |-> IdleReq]
    /\ served = NoneServed
    /\ clients = RaceClients
    /\ pf = NoCall

SpecRace == InitRace /\ [][Next]_vars

(***************************************************************************)
(* match_auth applied to drawn attempts and account lists                  *)
(***************************************************************************)
Usernames == {Str_u, Str_v}
Passwords == {Str_p, Str_q, Str_empty}

AccountUniverse ==
    { create_required_auth(u, pw, e) :
        u \in Usernames, pw \in {Str_p, Str_empty}, e \in {"plain", "sha256", "sha512"} }

AccountLists == UNION { [1..n -> AccountUniverse] : n \in 0..MaxAccounts }

InitMatch ==
    /\ cfg = [path |-> RootPath, auth |-> Accounts_none, overwrite_files |-> FALSE]
    /\ fs = InitFs
    /\ req = [w \in OneWorker |-> IdleReq]
    /\ served = NoneServed
    /\ clients = HeaderClients
    /\ pf \in [op : {"match_auth"},
               basic_auth : [username : Usernames, password : Passwords],
               required_auth : AccountLists,
               called : {FALSE}, out : {FALSE}]

CallMatchAuth ==
    /\ pf.op = "match_auth"
    /\ ~pf.called
    /\ pf' = [pf EXCEPT !.called = TRUE,
                        !.out = match_auth(pf.basic_auth, pf.required_auth)]
    /\ UNCHANGED <<cfg, fs, req, served, clients>>

NextMatch == CallMatchAuth

SpecMatch == InitMatch /\ [][NextMatch]_vars

(***************************************************************************)
(* status_code, handle_create_dir and handle_multipart applied to drawn    *)
(* arguments, on the served tree with the read-only directory              *)
(***************************************************************************)
\* target directories: the root, a read-only directory, a file, a path that
\* names nothing, and a link to a directory
TargetInputs ==
    { RootPath, <<"/", "srv", "/", "ro">>, <<"/", "srv", "/", "a">>,
      <<"/", "srv", "/", "gone">>, <<"/", "srv", "/", "lnk">> }

InitClassify ==
    /\ cfg = [path |-> RootPath, auth |-> Accounts_none, overwrite_files |-> FALSE]
    /\ fs = DirsFs
    /\ req = [w \in OneWorker |-> IdleReq]
    /\ served = NoneServed
    /\ clients = DirClients
    /\ pf \in [op : {"status_code"}, error : ErrorValues,
                called : {FALSE}, out : {0}]
          \cup [op : {"handle_create_dir"}, target_dir : TargetInputs,
                dir_name : {<<"d">>, <<"a">>, <<"..", "/", "e">>},
                called : {FALSE}, err : {None}]
          \cup [op : {"handle_multipart"}, target_dir : TargetInputs,
                filename : {Some(<<"b">>), Some(<<"a">>), Absent},
                overwrite_files : BOOLEAN,
                called : {FALSE}, err : {None}]

CallStatusCode ==
    /\ pf.op = "status_code"
    /\ ~pf.called
    /\ pf' = [pf EXCEPT !.called = TRUE, !.out = status_code(pf.error)]
    /\ UNCHANGED <<cfg, fs, req, served, clients>>

CallHandleCreateDir ==
    /\ pf.op = "handle_create_dir"
    /\ ~pf.called
    /\ LET h == handle_create_dir(fs, pf.target_dir, pf.dir_name)
       IN  /\ pf' = [pf EXCEPT !.called = TRUE, !.err = h.err]
           /\ fs' = h.fs
    /\ UNCHANGED <<cfg, req, served, clients>>

\* handle_multipart up to the opening of the destination by save_file
\* (file_upload.rs:92-124, 33-50)
CallHandleMultipart ==
    /\ pf.op = "handle_multipart"
    /\ ~pf.called
    /\ LET h == handle_multipart(fs, pf.filename, pf.target_dir, pf.overwrite_files)
           c == file_create(fs, Get(h.file_path))
       IN  IF ~h.ok
           THEN /\ pf' = [pf EXCEPT !.called = TRUE, !.err = h.err]
                /\ fs' = fs
           ELSE IF ~c.ok
           THEN /\ pf' = [pf EXCEPT !.called = TRUE, !.err = "IoError"]
                /\ fs' = fs
           ELSE /\ pf' = [pf EXCEPT !.called = TRUE]
                /\ fs' = Put(fs, c.path, created(fs, c.path))
    /\ UNCHANGED <<cfg, req, served, clients>>

NextClassify == CallStatusCode \/ CallHandleCreateDir \/ CallHandleMultipart

SpecClassify == InitClassify /\ [][NextClassify]_vars

(***************************************************************************)
(* Properties                                                              *)
(***************************************************************************)
\* the location a canonical path string names
LocOf(path) == SelectSeq(path, LAMBDA t : t # "/")

\* loc is the served root or lies below it, component by component
Inside(loc) == IsPrefixOf(RootLoc, loc)

\* loc exists and no step of it goes through a link, "." or ".."
IsCanonical(f, loc) ==
    \A i \in 0..Len(loc) :
        /\ SubSeq(loc, 1, i) \in DOMAIN f
        /\ f[SubSeq(loc, 1, i)].kind # "link"
        /\ (i > 0 => loc[i] \notin {".", ".."})

\* the password spec accepts the password, as the specification words it
Accepts(spec, password) ==
    \/ spec.kind = "Plain" /\ spec.v = password
    \/ spec.kind = "Sha256" /\ spec.v = get_hash("Sha256", password)
    \/ spec.kind = "Sha512" /\ spec.v = get_hash("Sha512", password)

SomeAccountAccepts(accounts, username, password) ==
    \E i \in DOMAIN accounts :
        accounts[i].username = username /\ Accepts(accounts[i].password, password)

\* C1: no file or directory outside the served root is ever created,
\* truncated or changed by an upload or mkdir request: outside the root the
\* filesystem stays as it was at startup, and nothing a request wrote lies
\* outside the root.
C1_NoMutationOutsideRoot ==
    /\ \A loc \in DOMAIN fs \cup DOMAIN InitFs :
          ~Inside(loc) => /\ loc \in DOMAIN fs
                          /\ loc \in DOMAIN InitFs
                          /\ fs[loc] = InitFs[loc]
    /\ \A w \in Workers : \A loc \in req[w].wrote : Inside(loc)

\* C2: when a request is accepted by upload_file or create_dir, the
\* resolution of its 'path' either rejects it with InvalidHttpRequestError,
\* status 400, the filesystem unchanged, or yields a target directory that
\* is the canonical root or a component-wise descendant of it.
C2_PathResolutionOutcomes ==
    [][\A w \in Workers :
          (req[w].pc = "idle" /\ req'[w].pc # "idle") =>
             \/ /\ req'[w].pc = "auth"
                /\ req'[w].target_dir = Absent
                /\ req'[w].handler_resp.err = "InvalidHttpRequestError"
                /\ req'[w].handler_resp.status = 400
                /\ fs' = fs
             \/ /\ req'[w].target_dir # Absent
                /\ Inside(LocOf(Get(req'[w].target_dir)))
                /\ IsCanonical(fs, LocOf(Get(req'[w].target_dir)))]_vars

\* C2 witness: after a mkdir of "d", the 'path' of a second request was
\* rejected as invalid
C2_Witness ==
    \E w \in Workers :
        /\ req[w].pc = "auth"
        /\ req[w].handler_resp.msg = "Invalid value for 'path' parameter"
        /\ req[w].handler_resp.status = 400
        /\ <<"srv", "d">> \in DOMAIN fs
        /\ served.requests = 2

\* C3: match_auth returns true exactly when some account of the list has
\* the attempt's username and a password spec that accepts the attempt's
\* password.
C3_MatchAuthIff ==
    (pf.op = "match_auth" /\ pf.called) =>
        (pf.out <=> SomeAccountAccepts(pf.required_auth, pf.basic_auth.username,
                                       pf.basic_auth.password))

\* C3 witness: two accounts share the username, the first refuses and the
\* second accepts an empty password
C3_Witness ==
    /\ pf.op = "match_auth" /\ pf.called /\ pf.out
    /\ Len(pf.required_auth) = 2
    /\ pf.required_auth[1].username = pf.required_auth[2].username
    /\ pf.basic_auth.username = pf.required_auth[1].username
    /\ pf.basic_auth.password = Str_empty
    /\ ~Accepts(pf.required_auth[1].password, Str_empty)
    /\ pf.required_auth[2].password.kind = "Sha512"

\* C4: with accounts configured, a request the credential check rejects
\* has created, truncated or written no file or directory.
C4_RejectedRequestWritesNothing ==
    \A w \in Workers :
        (req[w].pc = "done" /\ Len(cfg.auth) > 0 /\ req[w].decision = "Rejected")
            => req[w].wrote = {}

\* C5: with no accounts configured every request is let through with the
\* handler's response unchanged, whatever its Authorization header; the
\* header is not parsed (a header that cannot be parsed changes nothing).
C5_NoAccountsLetsThrough ==
    \A w \in Workers :
        (Len(cfg.auth) = 0 /\ req[w].pc \in {"done", "aborted"}) =>
            /\ req[w].pc = "done"
            /\ req[w].decision = "NoAuthRequired"
            /\ req[w].resp = req[w].handler_resp

\* C5 witness: no accounts, and a request whose header has no ':' is done
C5_Witness ==
    \E w \in Workers :
        /\ Len(cfg.auth) = 0
        /\ req[w].pc = "done"
        /\ req[w].header = Some(H_no_colon)

\* a well-formed header whose credentials no account accepts
MismatchingHeader(header, accounts) ==
    \E u \in Usernames, p \in Passwords :
        /\ header = Some(BasicHeader(u, p))
        /\ ~SomeAccountAccepts(accounts, u, p)

\* C6: with accounts configured, a request without Authorization header,
\* or with a well-formed header matching no account, gets status 401 with
\* WWW-Authenticate: Basic realm="miniserve", not the handler's response.
C6_MissingOrWrongCredentialsIs401 ==
    \A w \in Workers :
        ( /\ Len(cfg.auth) > 0
          /\ req[w].pc \in {"done", "aborted"}
          /\ (req[w].header = Absent \/ MismatchingHeader(req[w].header, cfg.auth)) )
        => /\ req[w].pc = "done"
           /\ req[w].decision = "Rejected"
           /\ req[w].resp.status = 401
           /\ req[w].resp.www = "Basic realm=\"miniserve\""
           /\ req[w].resp # req[w].handler_resp

\* C6 witness: a well-formed header with a wrong password was answered
C6_Witness ==
    \E w \in Workers :
        /\ cfg.auth = Accounts_one
        /\ req[w].pc = "done"
        /\ req[w].header = Some(H_u_q)
        /\ req[w].handler_resp.status = 303

\* C7: with accounts configured, every Authorization header that cannot be
\* decoded into a username and a password is rejected with status 400; the
\* request is never authorized and the call never aborts.
C7_UndecodableHeaderIs400 ==
    \A w \in Workers :
        ( /\ Len(cfg.auth) > 0
          /\ req[w].pc \in {"done", "aborted"}
          /\ req[w].header \in {Some(h) : h \in UndecodableHeaders} )
        => /\ req[w].pc = "done"
           /\ req[w].decision = "Rejected"
           /\ req[w].resp.status = 400

\* C8: with accounts configured, a request whose Authorization header does
\* not begin with "Basic " is never authorized.
C8_OnlyBasicPrefixAuthorizes ==
    \A w \in Workers :
        ( /\ Len(cfg.auth) > 0
          /\ req[w].pc = "done"
          /\ req[w].header # Absent
          /\ ~IsPrefixOf(BasicPrefix, Get(req[w].header)) )
        => req[w].decision # "Authorized"

\* worker w takes a step in which a field of its request arrives
FieldStep(w) ==
    /\ req[w].pc = "fields"
    /\ req'[w] # req[w]
    /\ served'.fields = served.fields + 1

\* C9: with overwrite off, a field whose destination exists ends the
\* request with DuplicateFileError, no file is opened and the filesystem,
\* the existing file with it, is left as it was.
C9_NoOverwrite ==
    [][\A w \in Workers :
          ( /\ FieldStep(w)
            /\ ~cfg.overwrite_files
            /\ req'[w].file_path # Absent
            /\ exists(fs, Get(req'[w].file_path)) )
          => /\ req'[w].pc = "auth"
             /\ req'[w].handler_resp.err = "DuplicateFileError"
             /\ req'[w].file = Absent
             /\ fs' = fs]_vars

\* C9 witness: the upload of "a" into the root, where "a" exists, was refused
C9_Witness ==
    \E w \in Workers :
        /\ ~cfg.overwrite_files
        /\ req[w].pc = "auth"
        /\ req[w].handler_resp.err = "DuplicateFileError"
        /\ req[w].file_path = Some(<<"/", "srv", "/", "a">>)
        /\ fs[<<"srv", "a">>] = InitFs[<<"srv", "a">>]

\* C10: when a field has been ingested, the destination file holds exactly
\* the field's chunks in arrival order and the count returned is their
\* total length.
C10_ContentIsUploadedBytes ==
    \A w \in Workers :
        (req[w].pc = "fields" /\ req[w].field_done) =>
            /\ fs[Get(req[w].file)] = File(req[w].recv)
            /\ req[w].acc = Len(req[w].recv)

\* C10 witness: the existing file "a" was overwritten by two chunks
C10_Witness ==
    \E w \in Workers :
        /\ req[w].pc = "fields" /\ req[w].field_done
        /\ req[w].file = Some(<<"srv", "a">>)
        /\ req[w].recv = <<1, 2, 2>>
        /\ cfg.overwrite_files

\* a directory name that is one plain component
IsName(name) == Len(name) = 1 /\ name[1] \notin {"/", ".", ".."}

\* worker w takes a step in which create_dir handles a request whose
\* 'path' resolved to a target directory
MkdirStep(w) ==
    /\ req[w].pc = "idle"
    /\ req'[w].kind = "mkdir"
    /\ req'[w].target_dir # Absent
    /\ req'[w].dir_name # Absent

\* C11: mkdir of a valid name under a writable target directory fails with
\* ConflictMkdirError and changes nothing when the name exists there (as a
\* file or a directory), and otherwise succeeds and the name exists from
\* then on; nothing is ever removed, so the same name twice succeeds the
\* first time and conflicts the second time.
C11_MkdirConflict ==
    [][/\ \A loc \in DOMAIN fs : loc \in DOMAIN fs'
       /\ \A w \in Workers :
            LET r == req'[w]
                T == LocOf(Get(r.target_dir))
                child == Append(T, Get(r.dir_name)[1])
            IN  ( /\ MkdirStep(w)
                  /\ IsName(Get(r.dir_name))
                  /\ fs[T].kind = "dir" /\ ~fs[T].ro )
                => IF child \in DOMAIN fs
                   THEN /\ r.handler_resp.err = "ConflictMkdirError"
                        /\ fs' = fs
                   ELSE /\ r.handler_resp.status = 303
                        /\ fs' = Put(fs, child, Dir(FALSE))]_vars

\* C11 witness: "d" was created by the first request and the second mkdir
\* of "d" under the same target was refused with ConflictMkdirError
C11_Witness ==
    \E w \in Workers :
        /\ req[w].pc = "auth" /\ req[w].kind = "mkdir"
        /\ served.requests = 2
        /\ req[w].target_dir = Some(RootPath)
        /\ req[w].dir_name = Some(<<"d">>)
        /\ req[w].handler_resp.err = "ConflictMkdirError"
        /\ <<"srv", "d">> \in DOMAIN fs
        /\ <<"srv", "d">> \notin DOMAIN InitFs

\* the name has a parent-reference or a root component
HasParentOrRoot(name) ==
    \/ has_root(name)
    \/ \E i \in DOMAIN name : name[i] = ".."

\* C12: whatever the target directory of a mkdir (writable or read-only,
\* a directory or not), a name with a parent-reference or root component
\* fails with InvalidPathError and creates nothing.
C12_IllegalNameIsInvalidPath ==
    \A w \in Workers :
        ( /\ req[w].pc = "auth" /\ req[w].kind = "mkdir"
          /\ req[w].target_dir # Absent /\ req[w].dir_name # Absent
          /\ HasParentOrRoot(Get(req[w].dir_name)) )
        => /\ req[w].handler_resp.err = "InvalidPathError"
           /\ req[w].wrote = {}

\* the name holds a separator
HasSeparator(name) == \E i \in DOMAIN name : name[i] = "/"

\* C13: a mkdir name holding a separator is rejected, and a successful
\* mkdir has created exactly one directory, a direct child of target_dir.
C13_SingleComponent ==
    \A w \in Workers :
        ( /\ req[w].pc = "auth" /\ req[w].kind = "mkdir"
          /\ req[w].target_dir # Absent /\ req[w].dir_name # Absent )
        => /\ HasSeparator(Get(req[w].dir_name)) => req[w].handler_resp.status # 303
           /\ req[w].handler_resp.status = 303 =>
                 \E n \in {"d", "a", "e", "out", "lnk"} :
                    req[w].wrote = {Append(LocOf(Get(req[w].target_dir)), n)}

\* worker w takes a step in which a handler takes up a request
RequestStep(w) == req[w].pc = "idle" /\ req'[w].pc # "idle"

\* C14: an upload or mkdir request without 'path', and a mkdir request
\* without 'mkdir_name', gets status 400 with a message naming the missing
\* parameter, and changes nothing in the filesystem.
C14_MissingParameterIs400 ==
    [][\A w \in Workers :
          LET r == req'[w]
          IN  /\ (RequestStep(w) /\ r.target_dir = Absent /\ r.query_path = Absent)
                 => /\ r.pc = "auth"
                    /\ r.handler_resp.status = 400
                    /\ r.handler_resp.msg = "Missing query parameter 'path'"
                    /\ fs' = fs /\ r.wrote = {}
              /\ (RequestStep(w) /\ r.kind = "mkdir" /\ r.target_dir = Absent
                     /\ r.query_path # Absent /\ r.dir_name = Absent)
                 => /\ r.pc = "auth"
                    /\ r.handler_resp.status = 400
                    /\ r.handler_resp.msg = "Missing query parameter 'mkdir_name'"
                    /\ fs' = fs /\ r.wrote = {}
              /\ (req[w].pc = "auth" /\ r.pc = "done" /\ r.decision # "Rejected")
                 => r.resp = req[w].handler_resp /\ fs' = fs]_vars

\* C14 witness: a mkdir request that gave 'path' but no 'mkdir_name' was
\* let through by the middleware with its 400 response
C14_Witness ==
    \E w \in Workers :
        /\ req[w].pc = "done" /\ req[w].kind = "mkdir"
        /\ req[w].query_path # Absent /\ req[w].dir_name = Absent
        /\ req[w].resp.status = 400
        /\ req[w].resp.msg = "Missing query parameter 'mkdir_name'"

\* the status the taxonomy gives the variant, where it names one
TaxonomyStatus(kind) ==
    IF kind = "InsufficientPermissionsError" THEN 403
    ELSE IF kind = "InvalidHttpCredentials" THEN 401
    ELSE IF kind \in {"InvalidHttpRequestError", "ParseError"} THEN 400
    ELSE 500

TaxonomyKinds ==
    { "InsufficientPermissionsError", "InvalidHttpCredentials",
      "InvalidHttpRequestError", "ParseError", "IoError", "MultipartError",
      "DuplicateFileError", "InvalidPathError" }

\* C15: status_code gives every error value the taxonomy's status of its
\* innermost cause: 403 InsufficientPermissionsError, 401
\* InvalidHttpCredentials, 400 InvalidHttpRequestError and ParseError, 500
\* IoError, MultipartError, DuplicateFileError and InvalidPathError,
\* through any depth of composite wrapping.
C15_StatusFollowsTaxonomy ==
    (pf.op = "status_code" /\ pf.called /\ Last(pf.error) \in TaxonomyKinds)
        => pf.out = TaxonomyStatus(Last(pf.error))

\* what the target path names in the filesystem f
TargetClass(f, target_dir) ==
    LET r == Resolve(f, target_dir)
    IN  IF ~r.ok THEN "missing"
        ELSE IF f[r.path].kind # "dir" THEN "not a directory"
        ELSE IF f[r.path].ro THEN "read-only"
        ELSE "writable"

\* C18: the target-directory check comes before any mutation by mkdir or
\* by an upload field and classifies the target: missing or read-only
\* gives InsufficientPermissionsError, not a directory gives
\* InvalidPathError, and nothing is created in these cases; an existing
\* writable directory passes the check.
C18_TargetDirClassified ==
    ( /\ pf.op \in {"handle_create_dir", "handle_multipart"}
      /\ pf.called
      /\ (pf.op = "handle_multipart" => pf.filename # Absent) )
    => LET class == TargetClass(DirsFs, pf.target_dir)
       IN  /\ class \in {"missing", "read-only"}
                => pf.err = "InsufficientPermissionsError" /\ fs = DirsFs
           /\ class = "not a directory"
                => pf.err = "InvalidPathError" /\ fs = DirsFs
           /\ class = "writable"
                => /\ pf.err # "InsufficientPermissionsError"
                   /\ pf.err = "InvalidPathError"
                        => pf.op = "handle_create_dir" /\ ~IsName(pf.dir_name)

\* C18 witness: mkdir of "d" under a target that names nothing was refused
C18_Witness ==
    /\ pf.op = "handle_create_dir" /\ pf.called
    /\ pf.target_dir = <<"/", "srv", "/", "gone">>
    /\ pf.dir_name = <<"d">>
    /\ pf.err = "InsufficientPermissionsError"
    /\ fs = DirsFs

\* C16: the status of the response for a failed upload or mkdir is the
\* taxonomy's status of the error: 500 for DuplicateFileError and IoError,
\* 403 for InsufficientPermissionsError, 400 for InvalidHttpRequestError
\* and for a filename ParseError.
C16_ResponseStatusIsTaxonomy ==
    \A w \in Workers :
        ( /\ req[w].pc \in {"auth", "done"}
          /\ req[w].handler_resp.err \in TaxonomyKinds )
        => req[w].handler_resp.status = TaxonomyStatus(req[w].handler_resp.err)

\* C17: the handler answers an upload with 303 exactly when the body was
\* read to its end and every field that arrived was ingested, and a mkdir
\* exactly when the directory was created; the Location is the Referer
\* value, or "/" when there is none or it is not text; the middleware hands
\* the response on unless it rejects the credentials.
C17_RedirectIffSuccess ==
    \A w \in Workers :
        LET r == req[w]
            redirect == r.handler_resp.status = 303
        IN  r.pc \in {"auth", "done"} =>
              /\ r.kind = "upload" =>
                    (redirect <=> /\ r.target_dir # Absent
                                  /\ r.arrived = r.ingested
                                  /\ r.handler_resp.err # "MultipartError")
              /\ r.kind = "mkdir" =>
                    (redirect <=> /\ r.wrote # {}
                                  /\ \A loc \in r.wrote :
                                        loc \notin DOMAIN InitFs /\ fs[loc].kind = "dir")
              /\ redirect =>
                    r.handler_resp.location =
                        Some(IF r.referer = Absent THEN <<47>>
                             ELSE IF \A i \in DOMAIN Get(r.referer) :
                                        IsVisibleAscii(Get(r.referer)[i])
                                  THEN Get(r.referer)
                             ELSE <<47>>)
              /\ (r.pc = "done" /\ r.decision # "Rejected") => r.resp = r.handler_resp

\* C17 witness: an upload of one field, sent with a Referer that is not
\* text, was ingested and answered with a redirect to "/"
C17_Witness ==
    \E w \in Workers :
        /\ req[w].pc = "done" /\ req[w].kind = "upload"
        /\ req[w].arrived = 1 /\ req[w].ingested = 1
        /\ req[w].referer = Some(<<255>>)
        /\ req[w].resp.status = 303
        /\ req[w].resp.location = Some(<<47>>)

\* C19: within a request a field's destination is checked only when every
\* field before it has been written to its end, and a file is opened or
\* written only for the one field that arrived last: no two fields of a
\* request are in progress together.
C19_FieldsOneAtATime ==
    [][\A w \in Workers :
          /\ req'[w].arrived = req[w].arrived + 1
                => req[w].pc = "fields" /\ req[w].arrived = req[w].ingested
          /\ req'[w].pc \in {"create", "write"}
                => req'[w].arrived = req'[w].ingested + 1
          /\ req'[w].pc = "fields"
                => req'[w].arrived = req'[w].ingested]_vars

\* C19 witness: the second field of a request is being written, the first
\* one having been ingested
C19_Witness ==
    \E w \in Workers :
        /\ req[w].pc = "write"
        /\ req[w].arrived = 2 /\ req[w].ingested = 1
        /\ req[w].recv # <<>>

\* C20: nothing but the filesystem decides the no-overwrite check: with
\* overwrite off, a field whose destination does not exist passes the
\* check whatever the other requests are doing, and the open that follows
\* leaves an empty file whatever was written there meanwhile.
C20_CheckThenWriteNotAtomic ==
    [][\A w \in Workers :
          /\ ( /\ FieldStep(w)
                /\ ~cfg.overwrite_files
                /\ req'[w].file_path # Absent
                /\ ~exists(fs, Get(req'[w].file_path)) )
             => req'[w].pc = "create"
          /\ (req[w].pc = "create" /\ req'[w].pc = "write")
             => fs'[Get(req'[w].file)] = File(<<>>)]_vars

\* C20 witness: two requests uploaded to the same destination with
\* overwrite off, both fields were ingested without DuplicateFileError,
\* and the file holds the bytes of one of them only
C20_Witness ==
    /\ ~cfg.overwrite_files
    /\ \A w \in TwoWorkers :
          /\ w \in DOMAIN req
          /\ req[w].pc = "fields" /\ req[w].field_done
          /\ req[w].file = Some(<<"srv", "b">>)
          /\ req[w].recv # <<>>
    /\ <<"srv", "b">> \notin DOMAIN InitFs
    /\ fs[<<"srv", "b">>].data = req["w2"].recv
    /\ fs[<<"srv", "b">>].data # req["w1"].recv


(***************************************************************************)
(* The error log.  The server of SpecHeaders, and beside it calls of       *)
(* log_error_chain and of ContextualError::error_response on their own.    *)
(***************************************************************************)
LogClients ==
    [headers |-> {Absent, Some(H_u_p), Some(H_u_q), Some(H_not_base64),
                  Some(H_not_text)},
     referers |-> {Absent},
     paths |-> {Some(<<"/">>), Absent},
     filenames |-> {Some(<<"b">>), Some(<<"a">>), Absent},
     mkdir_names |-> {Some(<<"d">>), Some(<<"a">>)},
     short_writes |-> {0}]

InitLog ==
    /\ cfg \in [path : {RootPath}, auth : {Accounts_none, Accounts_one},
                overwrite_files : {FALSE}]
    /\ fs = InitFs
    /\ req = [w \in OneWorker |-> IdleReq]
    /\ served = NoneServed
    /\ clients = LogClients
    /\ pf = NoCall

\* texts given to log_error_chain: empty, one line, several lines, an empty
\* line, a line feed at the end
DescriptionInputs ==
    { <<>>, <<"a">>, <<"a", LF>>, <<"a", LF, "b">>, <<"a", LF, LF, "b">>,
      <<LF>>, <<"a", LF, "b", LF>> }

\* error values given to error_response: every variant, bare and wrapped once
ResponseErrorInputs == { w \o <<b>> : w \in Wrappings(1), b \in ErrorBase }

CallLogErrorChain ==
    /\ pf = NoCall
    /\ \E description \in DescriptionInputs :
         pf' = [op |-> "log_error_chain", description |-> description,
                events |-> log_error_chain(description)]
    /\ UNCHANGED <<cfg, fs, req, served, clients>>

CallErrorResponse ==
    /\ pf = NoCall
    /\ \E e \in ResponseErrorInputs :
         pf' = [op |-> "error_response", error |-> e,
                events |-> error_response(e, "{0}").events,
                status |-> error_response(e, "{0}").status]
    /\ UNCHANGED <<cfg, fs, req, served, clients>>

NextLog == Next \/ CallLogErrorChain \/ CallErrorResponse

SpecLog == InitLog /\ [][NextLog]_vars

\* the lines ls put together again, a line feed between two lines
RECURSIVE JoinLines(_)
JoinLines(ls) ==
    IF ls = <<>> THEN <<>>
    ELSE IF Len(ls) = 1 THEN ls[1]
    ELSE ls[1] \o <<LF>> \o JoinLines(Tail(ls))

EndsWithLF(text) == text # <<>> /\ text[Len(text)] = LF

\* the number of lines of a text
LineCount(text) ==
    Cardinality({i \in DOMAIN text : text[i] = LF})
        + (IF text = <<>> \/ EndsWithLF(text) THEN 0 ELSE 1)

\* evs are log lines only, one for every line of the text, in its order
IsChainLogged(evs, text) ==
    /\ \A i \in DOMAIN evs : evs[i].ev = "log" /\ LF \notin {evs[i].line[k] : k \in DOMAIN evs[i].line}
    /\ Len(evs) = LineCount(text)
    /\ JoinLines([i \in DOMAIN evs |-> evs[i].line])
           = (IF EndsWithLF(text) THEN SubSeq(text, 1, Len(text) - 1) ELSE text)

IngestClients ==
    [headers |-> {Absent},
     referers |-> {Absent},
     paths |-> {Some(<<"/">>)},
     filenames |-> {Some(<<"b">>), Some(<<"a">>), Some(<<"lnk">>), Absent},
     mkdir_names |-> {Some(<<"d">>)},
     short_writes |-> 0..MaxChunks]

InitIngest ==
    /\ cfg \in [path : {RootPath}, auth : {Accounts_none}, overwrite_files : BOOLEAN]
    /\ fs = InitFs
    /\ req = [w \in OneWorker |-> IdleReq]
    /\ served = NoneServed
    /\ clients = IngestClients
    /\ pf = NoCall

SpecIngest == InitIngest /\ [][Next]_vars

\* s is the beginning of t
IsPrefix(s, t) == Len(s) <= Len(t) /\ SubSeq(t, 1, Len(s)) = s

\* worker w takes a step in which the ingestion of its field stops before
\* the field's end: a write fails or the multipart stream fails
IngestionStops(w) == req[w].pc = "write" /\ req'[w].pc = "auth"

\* C22: when the ingestion of a field stops before its end, the destination
\* file stays in place and holds the bytes written so far and nothing else:
\* the chunks written whole, then, after a write error, what write_all wrote
\* of the failing chunk, a prefix of the field's bytes; no other node of the
\* filesystem changes.  From the step that opens the destination on, the
\* file holds none of its previous content.
C22_PartialFileLeftInPlace ==
    [][\A w \in Workers :
          /\ IngestionStops(w) =>
               LET f == Get(req[w].file)
                   written == req[w].recv
               IN  /\ f \in DOMAIN fs'
                   /\ fs'[f].kind = "file"
                   /\ IsPrefix(written, fs'[f].data)
                   /\ \/ fs'[f].data = written
                      \/ /\ served'.chunks = served.chunks + 1
                         /\ IsPrefix(fs'[f].data,
                                     written \o Chunk(served'.chunks))
                         /\ fs'[f].data # written \o Chunk(served'.chunks)
                   /\ DOMAIN fs' = DOMAIN fs
                   /\ \A loc \in DOMAIN fs \ {f} : fs'[loc] = fs[loc]
          /\ (req[w].pc = "create" /\ req'[w].pc = "write") =>
               fs'[Get(req'[w].file)] = File(<<>>)
          /\ req'[w].pc = "write" =>
               fs'[Get(req'[w].file)] = File(req'[w].recv)]_vars

\* C22 witness: with overwrite on, the upload of "a" stopped at a write
\* error after the first chunk and one byte of the second: the file was not
\* removed, and its previous content is gone
C22_Witness ==
    \E w \in Workers :
        /\ cfg.overwrite_files
        /\ req[w].pc = "auth"
        /\ req[w].handler_resp.err = "IoError"
        /\ req[w].file_path = Some(<<"/", "srv", "/", "a">>)
        /\ fs[<<"srv", "a">>] = File(<<1, 2>>)
        /\ InitFs[<<"srv", "a">>] = File(<<9>>)


\* worker w takes a step in which a field of its upload fails: the field has
\* no filename or its destination exists with overwrite off, the destination
\* cannot be opened, or a chunk is not written whole
FieldFails(w) ==
    \/ /\ FieldStep(w)
       /\ \/ req'[w].file_path = Absent
          \/ ~cfg.overwrite_files /\ exists(fs, Get(req'[w].file_path))
    \/ /\ req[w].pc = "create"
       /\ req'[w] # req[w]
       /\ ~file_create(fs, Get(req[w].file_path)).ok
    \/ /\ req[w].pc = "write"
       /\ served'.chunks = served.chunks + 1
       /\ fs'[Get(req[w].file)] # File(req[w].recv \o Chunk(served'.chunks))

\* the upload of worker w has ended with an error
UploadFailed(r) ==
    r.kind = "upload" /\ r.pc \in {"auth", "done"} /\ r.handler_resp.err # None

\* C23: the first field of an upload that fails ends the request with an
\* error response; the files written for earlier fields are as they were;
\* and from then on the request checks, opens and writes no field: nothing
\* is retried.
C23_FirstFailureEndsRequest ==
    [][\A w \in Workers :
          /\ FieldFails(w) =>
               /\ req'[w].pc = "auth"
               /\ req'[w].handler_resp.err # None
               /\ req'[w].handler_resp.status = 400
          /\ (req[w].pc \in {"fields", "create", "write"} /\ UploadFailed(req'[w])) =>
               /\ DOMAIN fs' = DOMAIN fs
               /\ \A loc \in DOMAIN fs :
                    (req[w].pc = "write" /\ loc = Get(req[w].file)) \/ fs'[loc] = fs[loc]
               /\ req'[w].wrote = req[w].wrote
          /\ UploadFailed(req[w]) =>
               /\ fs' = fs
               /\ served' = served
               /\ \/ req'[w] = IdleReq
                  \/ /\ req'[w].pc \in {"done", "aborted"}
                     /\ req'[w].arrived = req[w].arrived
                     /\ req'[w].ingested = req[w].ingested
                     /\ req'[w].file_path = req[w].file_path
                     /\ req'[w].wrote = req[w].wrote
                     /\ req'[w].handler_resp = req[w].handler_resp]_vars

\* C23 witness: with overwrite off, the first field was written to "b" and
\* the second, for the existing "a", was refused: the request has ended with
\* its error response, "b" holds the first field and "a" is untouched
C23_Witness ==
    \E w \in Workers :
        /\ ~cfg.overwrite_files
        /\ UploadFailed(req[w])
        /\ req[w].handler_resp.err = "DuplicateFileError"
        /\ req[w].arrived = 2
        /\ req[w].ingested = 1
        /\ req[w].wrote = {<<"srv", "b">>}
        /\ fs[<<"srv", "b">>] = File(<<1>>)
        /\ fs[<<"srv", "a">>] = InitFs[<<"srv", "a">>]

====
